---- MODULE Spec2Model ----
(***************************************************************************)
(* geochunk: classification of zip codes into population-sized chunks.    *)
(*                                                                         *)
(* Strings are sequences of one-character strings, so that slicing         *)
(* (&zip[..i]), concatenation (format!) and length are the operations the  *)
(* code performs.  Populations and targets are u64 in the code; the model  *)
(* keeps them far below 2^64, where u64 arithmetic is ordinary addition.   *)
(***************************************************************************)
EXTENDS Integers, Sequences, FiniteSets, TLC

\* const ZIP_CODE_LENGTH: usize = 5;
ZIP_CODE_LENGTH == 5

\* A loop over the children that stops one digit early (0..9 for 0..10).
NUM_DIGITS_OneShort == 10 - 1

\* for digit in 0..10
NUM_DIGITS == 10

\* Largest population of one CSV row, and largest target_population tried.
MaxPop == 4
MaxTarget == 5

\* The characters format!("{}", digit) produces for digit = 0..9.
DigitChar == <<"0", "1", "2", "3", "4", "5", "6", "7", "8", "9">>

\* format!("{}", n) for an unsigned integer: its decimal digits.
RECURSIVE FormatNat(_)
FormatNat(n) ==
    IF n < 10 THEN <<DigitChar[n + 1]>>
    ELSE FormatNat(n \div 10) \o <<DigitChar[(n % 10) + 1]>>

\* format!("{}{}", prefix, digit)
ChildPrefix(prefix, digit) == prefix \o FormatNat(digit)

\* format!("{}_{}", prefix, chunk_idx)
ChunkId(prefix, chunk_idx) == prefix \o <<"_">> \o FormatNat(chunk_idx)

\* A five-digit zip code from its digits.
Zip(a, b, c, d, e) ==
    <<DigitChar[a + 1], DigitChar[b + 1], DigitChar[c + 1], DigitChar[d + 1],
      DigitChar[e + 1]>>

\* The zip codes that may have a row in the embedded CSV, in file order.
CsvZipList ==
    <<Zip(0, 0, 0, 0, 0), Zip(0, 0, 0, 0, 1), Zip(1, 0, 0, 0, 0),
      Zip(2, 0, 0, 0, 0)>>

\* What rdr.decode() yields for one row: Ok((zip, pop)) or Err.
Row(zip, pop) == [ok |-> TRUE, zip |-> zip, pop |-> pop]
MalformedRow == [ok |-> FALSE, zip |-> <<>>, pop |-> 0]

\* The rows of a CSV file holding zip CsvZipList[i] with population f[i]
\* (no row when f[i] = 0), from position i on.
RECURSIVE RowsOf(_, _)
RowsOf(f, i) ==
    IF i > Len(CsvZipList) THEN <<>>
    ELSE (IF f[i] = 0 THEN <<>> ELSE <<Row(CsvZipList[i], f[i])>>)
         \o RowsOf(f, i + 1)

\* The arguments chunk_for is called with: well-formed codes (present in
\* the data or not), codes that are too short, and one that is too long.
QueryZips ==
    { Zip(0, 0, 0, 0, 0), Zip(0, 0, 0, 0, 9), Zip(0, 1, 2, 3, 4),
      Zip(2, 9, 9, 9, 9), Zip(9, 9, 9, 9, 9),
      <<>>, <<"0", "0", "0", "0">>,
      <<"0", "0", "0", "0", "0", "0">> }

VARIABLES
    csv,                  \* ZIP_POPULATION_CSV, as the decoded rows
    pc,                   \* "start", "ready" (a Classifier exists), "panicked"
    panic,                \* which panic ended the program, or NoPanic
    maps,                 \* PrefixPopulation.maps built by Classifier::new
    target_population,    \* Classifier.target_population
    chunk_id_for_prefix,  \* Classifier.chunk_id_for_prefix
    zip,                  \* the argument of the last chunk_for call
    result                \* what the last chunk_for call returned

vars == <<csv, pc, panic, maps, target_population, chunk_id_for_prefix,
          zip, result>>

NoPanic == "none"
PanicCsv == "Invalid CSV data built into executable"
PanicLookup == "Invalid zip code prefix"
PanicAssert == "assertion failed: child_pop < target_population"
PanicSlice == "byte index out of range"

\* HashMap::new()
EmptyMap == [k \in {} |-> 0]

\* HashMap::insert(key, value)
Insert(m, key, value) ==
    [k \in (DOMAIN m) \cup {key} |-> IF k = key THEN value ELSE m[k]]

\* &s[..i], for i <= s.len()
Slice(s, i) == SubSeq(s, 1, i)

\* PrefixPopulationMaps::default(): one empty map per prefix length.
DefaultMaps == [i \in 1..(ZIP_CODE_LENGTH + 1) |-> EmptyMap]

\* An occupied entry overwritten with the row's population, not added to.
EntryAdd_Overwrite(m, key, pop) == Insert(m, key, pop)

\* The match on maps[prefix_len].entry(key): insert pop when vacant,
\* add pop when occupied.
EntryAdd(m, key, pop) ==
    IF key \in DOMAIN m THEN [m EXCEPT ![key] = @ + pop]
    ELSE Insert(m, key, pop)

\* for prefix_len in 0..maps.len(): add the row to every prefix's total.
AddRow(ms, z, pop) ==
    [i \in 1..(ZIP_CODE_LENGTH + 1) |-> EntryAdd(ms[i], Slice(z, i - 1), pop)]

\* PrefixPopulation::new: fold the rows; row.expect(..) panics on a
\* malformed row.
RECURSIVE NewLoop(_, _, _)
NewLoop(rows, i, ms) ==
    IF i > Len(rows) THEN [panic |-> NoPanic, maps |-> ms]
    ELSE IF ~rows[i].ok THEN [panic |-> PanicCsv, maps |-> ms]
    ELSE NewLoop(rows, i + 1, AddRow(ms, rows[i].zip, rows[i].pop))

\* A reader that skips the rows that do not decode.
PrefixPopulationNew_SkipMalformed(rows) ==
    NewLoop(SelectSeq(rows, LAMBDA r : r.ok), 1, DefaultMaps)

PrefixPopulationNew(rows) == NewLoop(rows, 1, DefaultMaps)

\* PrefixPopulation::lookup panics on a prefix longer than a zip code.
LookupPanics(prefix) == Len(prefix) > ZIP_CODE_LENGTH

\* PrefixPopulation::lookup: the population of the prefix, 0 when unseen.
Lookup(ms, prefix) ==
    IF prefix \in DOMAIN ms[Len(prefix) + 1] THEN ms[Len(prefix) + 1][prefix]
    ELSE 0

\* The comparison written strictly.
SmallEnough_Strict(prefix_pop, target) == prefix_pop < target

\* if prefix_pop <= target_population: small enough to fill a chunk alone.
SmallEnough(prefix_pop, target) == prefix_pop <= target

\* The comparison off by one.
RecurseInto_OffByOne(child_pop, target) == child_pop + 1 >= target

\* if child_pop >= target_population: the child is built recursively.
RecurseInto(child_pop, target) == child_pop >= target

\* The test made on the chunk's population before the child is added.
StartsNewChunk_BeforeAdding(chunk_pop, child_pop, target) == chunk_pop > target

\* if chunk_pop + child_pop > target_population: start the next chunk.
StartsNewChunk(chunk_pop, child_pop, target) == chunk_pop + child_pop > target

\* The state a build threads through: the map filled so far, and the panic
\* that stopped it (NoPanic while it runs).
BuildStart == [panic |-> NoPanic, map |-> EmptyMap]

\* for child_prefix in leftovers: group the leftovers into chunks named
\* {prefix}_{chunk_idx}, from leftover i on.
RECURSIVE GroupLoop(_, _, _, _, _, _, _, _)
GroupLoop(ms, target, prefix, leftovers, i, chunk_idx, chunk_pop, st) ==
    IF i > Len(leftovers) THEN st
    ELSE
        LET child_prefix == leftovers[i]
            child_pop == Lookup(ms, child_prefix)
            fresh == StartsNewChunk(chunk_pop, child_pop, target)
            idx == IF fresh THEN chunk_idx + 1 ELSE chunk_idx
            pop == IF fresh THEN 0 ELSE chunk_pop
        IN  IF LookupPanics(child_prefix)
            THEN [st EXCEPT !.panic = PanicLookup]
            ELSE IF ~(child_pop < target)
            THEN [st EXCEPT !.panic = PanicAssert]
            ELSE GroupLoop(ms, target, prefix, leftovers, i + 1, idx,
                           pop + child_pop,
                           [st EXCEPT !.map =
                               Insert(@, child_prefix, ChunkId(prefix, idx))])

\* PrefixPopulation::build_chunks_recursive, and its loop over the ten
\* children of a prefix (from `digit` on), which recurses into the large
\* ones and collects the others in `leftovers`.
RECURSIVE BuildChunksRecursive(_, _, _, _)
RECURSIVE ChildLoop(_, _, _, _, _, _)
ChildLoop(ms, target, prefix, digit, leftovers, st) ==
    IF st.panic /= NoPanic \/ digit >= NUM_DIGITS
    THEN [st |-> st, leftovers |-> leftovers]
    ELSE
        LET child_prefix == ChildPrefix(prefix, digit)
        IN  IF LookupPanics(child_prefix)
            THEN [st |-> [st EXCEPT !.panic = PanicLookup],
                  leftovers |-> leftovers]
            ELSE IF RecurseInto(Lookup(ms, child_prefix), target)
            THEN ChildLoop(ms, target, prefix, digit + 1, leftovers,
                           BuildChunksRecursive(ms, target, child_prefix, st))
            ELSE ChildLoop(ms, target, prefix, digit + 1,
                           Append(leftovers, child_prefix), st)

BuildChunksRecursive(ms, target, prefix, st) ==
    IF LookupPanics(prefix) THEN [st EXCEPT !.panic = PanicLookup]
    ELSE IF SmallEnough(Lookup(ms, prefix), target)
    THEN [st EXCEPT !.map = Insert(@, prefix, prefix)]
    ELSE
        LET c == ChildLoop(ms, target, prefix, 0, <<>>, st)
        IN  IF c.st.panic /= NoPanic THEN c.st
            ELSE GroupLoop(ms, target, prefix, c.leftovers, 1, 0, 0, c.st)

\* The build Classifier::new runs: from the empty prefix, into an empty map.
BuildChunks(ms, target) == BuildChunksRecursive(ms, target, <<>>, BuildStart)

\* The prefix lengths tried shortest first.
PrefixLenAt_Ascending(i_rev) == i_rev

\* The prefix lengths started one too high.
PrefixLenAt_OneHigh(i_rev) == ZIP_CODE_LENGTH + 1 - i_rev

\* let i = ZIP_CODE_LENGTH - i_rev;
PrefixLenAt(i_rev) == ZIP_CODE_LENGTH - i_rev

\* What a chunk_for call does: returns Ok(chunk id), returns Err, or panics.
\* `matched` is the length of the prefix found in the map, -1 when the call
\* fell through to the final Ok("") or panicked.
NoResult == [kind |-> "None", value |-> <<>>, matched |-> -1]
Ok(value, matched) == [kind |-> "Ok", value |-> value, matched |-> matched]
Panicked == [kind |-> "Panic", value |-> <<>>, matched |-> -1]

\* Classifier::chunk_for, from loop index i_rev on.  &zip[..i] panics when
\* i exceeds the length of zip.
RECURSIVE ChunkForLoop(_, _, _)
ChunkForLoop(m, z, i_rev) ==
    IF i_rev >= ZIP_CODE_LENGTH + 1 THEN Ok(<<>>, -1)
    ELSE
        LET i == PrefixLenAt(i_rev)
        IN  IF i > Len(z) \/ i < 0 THEN Panicked
            ELSE IF Slice(z, i) \in DOMAIN m THEN Ok(m[Slice(z, i)], i)
            ELSE ChunkForLoop(m, z, i_rev + 1)

ChunkForResult(m, z) == ChunkForLoop(m, z, 0)

----------------------------------------------------------------------------
\* The embedded CSV: any choice of populations 0..MaxPop for the zip codes
\* of CsvZipList, possibly followed by a row that does not decode.
CsvFiles ==
    { RowsOf(f, 1) \o tail :
        f \in [1..Len(CsvZipList) -> 0..MaxPop],
        tail \in {<<>>, <<MalformedRow>>} }

Init ==
    /\ csv \in CsvFiles
    /\ pc = "start"
    /\ panic = NoPanic
    /\ maps = DefaultMaps
    /\ target_population = 0
    /\ chunk_id_for_prefix = EmptyMap
    /\ zip = <<>>
    /\ result = NoResult

\* Classifier::new(target_population)
ClassifierNew(target) ==
    /\ pc = "start"
    /\ LET pp == PrefixPopulationNew(csv)
           b == BuildChunks(pp.maps, target)
       IN  /\ target_population' = target
           /\ IF pp.panic /= NoPanic
              THEN /\ pc' = "panicked"
                   /\ panic' = pp.panic
                   /\ UNCHANGED <<maps, chunk_id_for_prefix>>
              ELSE /\ maps' = pp.maps
                   /\ IF b.panic /= NoPanic
                      THEN /\ pc' = "panicked"
                           /\ panic' = b.panic
                           /\ UNCHANGED chunk_id_for_prefix
                      ELSE /\ pc' = "ready"
                           /\ chunk_id_for_prefix' = b.map
                           /\ UNCHANGED panic
    /\ UNCHANGED <<csv, zip, result>>

\* Classifier::chunk_for(zip)
ChunkFor(z) ==
    /\ pc = "ready"
    /\ zip' = z
    /\ result' = ChunkForResult(chunk_id_for_prefix, z)
    /\ IF result'.kind = "Panic"
       THEN pc' = "panicked" /\ panic' = PanicSlice
       ELSE UNCHANGED <<pc, panic>>
    /\ UNCHANGED <<csv, maps, target_population, chunk_id_for_prefix>>

Next ==
    \/ \E target \in 0..MaxTarget : ClassifierNew(target)
    \/ \E z \in QueryZips : ChunkFor(z)

Spec == Init /\ [][Next]_vars

----------------------------------------------------------------------------
\* chunk_for on a map of any shape: the keys are any subset of LookupKeys,
\* each mapped to itself or to its leftover chunk 0, so that the value
\* returned tells which key was matched.
LookupKeys ==
    { Slice(Zip(0, 1, 2, 3, 4), i) : i \in 0..ZIP_CODE_LENGTH }
        \cup {<<"0", "0">>}

AnyMappings ==
    UNION { { [k \in K |-> IF leaf[k] THEN k ELSE ChunkId(k, 0)] :
                leaf \in [K -> BOOLEAN] } : K \in SUBSET LookupKeys }

InitLookup ==
    /\ csv = <<>>
    /\ pc = "ready"
    /\ panic = NoPanic
    /\ maps = DefaultMaps
    /\ target_population = 0
    /\ chunk_id_for_prefix \in AnyMappings
    /\ zip = <<>>
    /\ result = NoResult

NextLookup == \E z \in QueryZips : ChunkFor(z)

SpecLookup == InitLookup /\ [][NextLookup]_vars

----------------------------------------------------------------------------
\* Vocabulary of the properties.

\* A Classifier was constructed (a later chunk_for may have panicked).
Constructed == pc = "ready" \/ panic = PanicSlice

\* Classifier::new was called and PrefixPopulation::new returned.
TableBuilt == pc /= "start" /\ panic /= PanicCsv

\* chunk_for has been called.
Queried == result.kind /= "None"

ChunkIds(m) == { m[k] : k \in DOMAIN m }

KeysOf(m, c) == { k \in DOMAIN m : m[k] = c }

RECURSIVE SumLookup(_, _)
SumLookup(ms, S) ==
    IF S = {} THEN 0
    ELSE LET k == CHOOSE x \in S : TRUE
         IN  Lookup(ms, k) + SumLookup(ms, S \ {k})

RECURSIVE SumRows(_, _)
SumRows(rows, i) ==
    IF i > Len(rows) THEN 0 ELSE rows[i].pop + SumRows(rows, i + 1)

IsPrefixOf(k, z) == Len(k) <= Len(z) /\ Slice(z, Len(k)) = k

Children(P) == { ChildPrefix(P, d) : d \in 0..9 }

\* The prefixes the population table is examined at: every prefix it
\* holds, and every prefix of a queried code, held or not.
ProbePrefixes ==
    (UNION { DOMAIN maps[i] : i \in 1..(ZIP_CODE_LENGTH + 1) })
        \cup { Slice(z, i) : z \in { q \in QueryZips : Len(q) = ZIP_CODE_LENGTH },
                            i \in 0..ZIP_CODE_LENGTH }

WellFormed(z) == Len(z) = ZIP_CODE_LENGTH

HasMalformedRow == \E i \in 1..Len(csv) : ~csv[i].ok

NumChunks(m) == Cardinality(ChunkIds(m))

----------------------------------------------------------------------------
\* C1: in a constructed Classifier, the populations of the prefixes mapped
\* to one chunk identifier (a leaf or a leftover group) sum to at most
\* target_population.
C1_ChunkPopulationWithinTarget ==
    Constructed =>
        \A c \in ChunkIds(chunk_id_for_prefix) :
            SumLookup(maps, KeysOf(chunk_id_for_prefix, c)) <= target_population

\* C1 witness: a leftover group of several populated prefixes that fills
\* the target exactly, next to a second group of the same parent.
C1_Witness ==
    /\ pc = "ready"
    /\ \E c \in ChunkIds(chunk_id_for_prefix) :
        /\ c \notin DOMAIN chunk_id_for_prefix
        /\ Cardinality({ k \in KeysOf(chunk_id_for_prefix, c) :
                            Lookup(maps, k) > 0 }) >= 2
        /\ SumLookup(maps, KeysOf(chunk_id_for_prefix, c)) = target_population
    /\ ChunkId(<<>>, 1) \in ChunkIds(chunk_id_for_prefix)

\* C2 (as claimed): chunk_for on a code shorter than ZIP_CODE_LENGTH
\* returns an error value; it does not panic.
C2_ShortZipReturnsError ==
    (Queried /\ Len(zip) < ZIP_CODE_LENGTH) => result.kind = "Err"

C4_NoInternalPanic == panic \notin {PanicLookup, PanicAssert}

\* C5: on a constructed Classifier, chunk_for of a string of exactly
\* ZIP_CODE_LENGTH digits returns Ok with one of the map's chunk
\* identifiers; it neither fails nor panics.
C5_ChunkForTotal ==
    (Queried /\ WellFormed(zip)) =>
        /\ result.kind = "Ok"
        /\ result.value \in ChunkIds(chunk_id_for_prefix)

\* C5 witness: a code absent from the population data answered with a
\* leftover group.
C5_Witness ==
    /\ Queried
    /\ zip = Zip(9, 9, 9, 9, 9)
    /\ result.kind = "Ok"
    /\ result.value = ChunkId(<<>>, 1)

\* C6: for any map and any code of ZIP_CODE_LENGTH characters of which at
\* least one prefix is a key, chunk_for returns the value stored under the
\* longest such prefix.
C6_LongestPrefixWins ==
    (Queried /\ WellFormed(zip)
        /\ \E i \in 0..ZIP_CODE_LENGTH : Slice(zip, i) \in DOMAIN chunk_id_for_prefix)
    => LET longest == CHOOSE i \in 0..ZIP_CODE_LENGTH :
                        /\ Slice(zip, i) \in DOMAIN chunk_id_for_prefix
                        /\ \A j \in (i + 1)..ZIP_CODE_LENGTH :
                               Slice(zip, j) \notin DOMAIN chunk_id_for_prefix
       IN  /\ result.kind = "Ok"
           /\ result.value = chunk_id_for_prefix[Slice(zip, longest)]

\* C6 witness: the 5-character and the 2-character prefix of the code are
\* both keys, and the 5-character key's value was returned.
C6_Witness ==
    /\ Queried
    /\ WellFormed(zip)
    /\ zip \in DOMAIN chunk_id_for_prefix
    /\ Slice(zip, 2) \in DOMAIN chunk_id_for_prefix
    /\ result.value = chunk_id_for_prefix[zip]
    /\ result.value /= chunk_id_for_prefix[Slice(zip, 2)]

\* C7: once PrefixPopulation::new has returned, the population of every
\* prefix shorter than a zip code is the sum of its ten children's, and
\* the population of the empty prefix is the sum of all rows'.
C7_PopulationAdditive ==
    TableBuilt =>
        /\ \A P \in ProbePrefixes :
            Len(P) < ZIP_CODE_LENGTH
                => Lookup(maps, P) = SumLookup(maps, Children(P))
        /\ Lookup(maps, <<>>) = SumRows(csv, 1)

\* C7 witness: a table of at least three rows in which a prefix has two
\* populated children.
C7_Witness ==
    /\ TableBuilt
    /\ Len(csv) >= 3
    /\ \E P \in ProbePrefixes :
        /\ Len(P) = ZIP_CODE_LENGTH - 1
        /\ Cardinality({ c \in Children(P) : Lookup(maps, c) > 0 }) = 2

C9_ExactlyOneKeyPerCode ==
    Constructed =>
        /\ \A z \in QueryZips :
            WellFormed(z) =>
                Cardinality({ k \in DOMAIN chunk_id_for_prefix :
                                IsPrefixOf(k, z) }) = 1
        /\ (Queried /\ WellFormed(zip)) => result.matched >= 0

\* C9 witness: a code under a populated, split prefix, absent from the
\* data, answered from a key of that prefix's leftover group.
C9_Witness ==
    /\ Queried
    /\ zip = Zip(0, 0, 0, 0, 9)
    /\ result.matched = ZIP_CODE_LENGTH
    /\ result.value = ChunkId(Slice(zip, ZIP_CODE_LENGTH - 1), 1)

\* C10: in a constructed Classifier every leaf chunk with a non-empty
\* prefix has population exactly target_population.
C10_NonEmptyLeafEqualsTarget ==
    Constructed =>
        \A k \in DOMAIN chunk_id_for_prefix :
            (k /= <<>> /\ chunk_id_for_prefix[k] = k)
                => Lookup(maps, k) = target_population

\* C10 witness: a leaf of positive population at a non-empty prefix
\* shorter than a zip code, beside a leftover group.
C10_Witness ==
    /\ pc = "ready"
    /\ target_population > 0
    /\ \E k \in DOMAIN chunk_id_for_prefix :
        /\ k /= <<>>
        /\ Len(k) < ZIP_CODE_LENGTH
        /\ chunk_id_for_prefix[k] = k
    /\ \E k \in DOMAIN chunk_id_for_prefix : chunk_id_for_prefix[k] /= k

====
